---- MODULE Spec2Model ----
(***************************************************************************)
(* Model of shaderpark's MaterialAutoUpdate (src/src/lib.rs): a channel of *)
(* file-watch events, drained one per update() call, each Create/Write     *)
(* event being filtered by prefix and extension, read, compiled and        *)
(* swapped into the engine as a new material.                              *)
(*                                                                         *)
(* The notify watcher, the file system, the shaderc compiler and the       *)
(* klystron Engine are the environment: their outcomes are chosen          *)
(* nondeterministically at each call.                                      *)
(***************************************************************************)
EXTENDS Integers, Sequences, FiniteSets, TLC

\* ------------------------------------------------------------------ bounds
\* Total number of events ever sent into the channel.
MaxEvents == 3

\* ------------------------------------------------------------ Option<T>
None == [some |-> FALSE]
Some(x) == [some |-> TRUE, val |-> x]

\* ------------------------------------------------------------ paths
\* A path is a sequence of characters; BAD stands for a byte sequence that
\* is not valid UTF-8 (to_str() yields None on it).
BAD == "\\xFF"

RECURSIVE LastIndexOf(_, _, _)
\* Largest i <= n with s[i] = c, 0 when there is none.
LastIndexOf(s, c, n) ==
    IF n = 0 THEN 0
    ELSE IF s[n] = c THEN n ELSE LastIndexOf(s, c, n - 1)

\* OsStr::to_str
to_str(s) == IF \E i \in 1..Len(s) : s[i] = BAD THEN None ELSE Some(s)

\* Path::file_name: the last component, None when the path ends in "..".
file_name(p) ==
    LET name == SubSeq(p, LastIndexOf(p, "/", Len(p)) + 1, Len(p))
    IN  IF name = <<>> \/ name = <<".", ".">> THEN None ELSE Some(name)

\* std::path split_file_at_dot: (before, after) around the last dot.
split_file_at_dot(file) ==
    LET d == LastIndexOf(file, ".", Len(file))
    IN  IF d = 0 THEN [before |-> None, after |-> Some(file)]
        ELSE IF d = 1 THEN [before |-> Some(file), after |-> None]
        ELSE [before |-> Some(SubSeq(file, 1, d - 1)),
              after  |-> Some(SubSeq(file, d + 1, Len(file)))]

\* Path::file_stem: before.or(after)
file_stem(p) ==
    IF ~file_name(p).some THEN None
    ELSE LET s == split_file_at_dot(file_name(p).val)
         IN  IF s.before.some THEN s.before ELSE s.after

\* Path::extension: before.and(after)
extension(p) ==
    IF ~file_name(p).some THEN None
    ELSE LET s == split_file_at_dot(file_name(p).val)
         IN  IF s.before.some THEN s.after ELSE None

\* str::starts_with
starts_with(s, pre) ==
    Len(pre) <= Len(s) /\ SubSeq(s, 1, Len(pre)) = pre

VERT == <<"v", "e", "r", "t">>
FRAG == <<"f", "r", "a", "g">>


\* ------------------------------------------------------------ inputs
P_mavert == <<"s", "/", "m", "a", ".", "v", "e", "r", "t">>
P_mafrag == <<"s", "/", "m", "a", ".", "f", "r", "a", "g">>
P_xavert == <<"s", "/", "x", "a", ".", "v", "e", "r", "t">>
P_mvert  == <<"s", "/", "m", ".", "v", "e", "r", "t">>
P_matxt  == <<"s", "/", "m", "a", ".", "t", "x", "t">>
P_ma     == <<"s", "/", "m", "a">>
P_hidden == <<"s", "/", ".", "v", "e", "r", "t">>
P_dotdot == <<"s", "/", ".", ".">>
P_badvert == <<"s", "/", "m", "a", BAD, ".", "v", "e", "r", "t">>

\* Paths an event may carry.
Paths == {P_mavert, P_mafrag, P_xavert, P_mvert, P_matxt, P_ma, P_hidden,
          P_dotdot, P_badvert}

\* Contents of the watched shader directory: the paths the events of one
\* run are about.
Dirs == {{P_mavert, P_mafrag},
         {P_mavert, P_xavert},
         {P_mafrag, P_matxt},
         {P_mvert, P_ma},
         {P_mafrag, P_hidden},
         {P_mavert, P_dotdot},
         {P_mavert, P_badvert}}

\* Values of the prefix argument of new().
Prefixes == {None, Some(<<"m", "a">>)}

\* has_prefix letting a stem through when it cannot be read as text
\* (unwrap_or(true)).
stem_has_prefix_lenient(prefix, path) ==
    IF ~prefix.some THEN TRUE
    ELSE LET stem == file_stem(path)
         IN  IF ~stem.some THEN TRUE
             ELSE LET s == to_str(stem.val)
                  IN  IF ~s.some THEN TRUE
                      ELSE starts_with(s.val, prefix.val)

\* The prefix test of update_shader: file_stem().and_then(to_str)
\* .map(starts_with(prefix)).unwrap_or(false), TRUE when no prefix is set.
stem_has_prefix(prefix, path) ==
    IF ~prefix.some THEN TRUE
    ELSE LET stem == file_stem(path)
         IN  IF ~stem.some THEN FALSE
             ELSE LET s == to_str(stem.val)
                  IN  IF ~s.some THEN FALSE
                      ELSE starts_with(s.val, prefix.val)

\* shader_kind treating every extension other than vert as a fragment
\* shader.
extension_kind_default_frag(path) ==
    LET ext == extension(path)
    IN  IF ~ext.some THEN None
        ELSE LET e == to_str(ext.val)
             IN  IF ~e.some THEN None
                 ELSE IF e.val = VERT THEN Some("Vertex")
                 ELSE Some("Fragment")

\* The extension match of update_shader: Some(kind) or None (ignored).
extension_kind(path) ==
    LET ext == extension(path)
    IN  IF ~ext.some THEN None
        ELSE LET e == to_str(ext.val)
             IN  IF ~e.some THEN None
                 ELSE IF e.val = VERT THEN Some("Vertex")
                 ELSE IF e.val = FRAG THEN Some("Fragment")
                 ELSE None

\* The two filters on every path and prefix of the model, computed once.
HasPrefixTable ==
    [prefix \in Prefixes |-> [path \in Paths |-> stem_has_prefix(prefix, path)]]
ShaderKindTable == [path \in Paths |-> extension_kind(path)]

\* update_shader, lines 72-81.
has_prefix(prefix, path) == HasPrefixTable[prefix][path]

\* update_shader, lines 83-87.
shader_kind(path) == ShaderKindTable[path]

\* ------------------------------------------------------------ events
\* DebouncedEvent: Create and Write are acted on; Remove stands for every
\* other variant.
Kinds == {"Create", "Write", "Remove"}
\* seq is the rank of the event among all events sent into the channel.
Event(k, p, n) == [kind |-> k, path |-> p, seq |-> n]

\* File contents fs::read_to_string may find.
Sources == {"S0", "A", "bad"}
ReadResults == {None} \cup {Some(s) : s \in Sources}

\* ------------------------------------------------------------ environment
UNLIT_VERT == <<"Vertex", "unlit">>
UNLIT_FRAG == <<"Fragment", "unlit">>

\* Compiler::compile_into_spirv followed by as_binary_u8().to_vec(): a
\* deterministic function of (source, kind); the source "bad" is rejected.
compile_into_spirv(source, kind) ==
    IF source = "bad" THEN None ELSE Some(<<kind, source>>)

\* The engine: the ids currently registered, the next fresh id, and for
\* every id ever created the binaries it was created from.
EmptyEngine == [registered |-> {}, nextId |-> 1, backing |-> <<>>]

\* Engine::remove_material, succeeding or failing as the engine decides.
remove_material(eng, m, ok) ==
    IF ok THEN [eng EXCEPT !.registered = @ \ {m}] ELSE eng

\* Engine::add_material, succeeding (fresh id) or failing.
add_material(eng, v, f, ok) ==
    IF ok
    THEN [eng |-> [registered |-> eng.registered \cup {eng.nextId},
                   nextId     |-> eng.nextId + 1,
                   backing    |-> Append(eng.backing, <<v, f>>)],
          ret |-> Some(eng.nextId)]
    ELSE [eng |-> eng, ret |-> None]

\* ------------------------------------------------------------ results
OkNone == [tag |-> "Ok", msg |-> None]
OkSome(kind, path) ==
    [tag |-> "Ok", msg |-> Some([text |-> "Successfully loaded", kind |-> kind, path |-> path])]
Err(what) == [tag |-> "Err", err |-> what]
Panic == [tag |-> "Panic"]
OkUnit == [tag |-> "Ok"]

RemoveCall(m, ok) == [op |-> "remove_material", id |-> m, ok |-> ok]
AddCall(v, f, ret) == [op |-> "add_material", vert |-> v, frag |-> f, ret |-> ret]

\* ------------------------------------------------------------ controller
SetupStep(what, ok) == [step |-> what, ok |-> ok]

\* new registering the initial material before the watcher is set up.
new_material_first(eng, prefix, compilerOk, watchOk, addOk) ==
    IF ~compilerOk
    THEN [ok |-> FALSE, eng |-> eng, calls |-> <<>>,
          ret |-> Err("Shaderc failed to create compiler"),
          setup |-> <<SetupStep("Compiler::new", FALSE)>>]
    ELSE LET a == add_material(eng, UNLIT_VERT, UNLIT_FRAG, addOk)
             c == <<AddCall(UNLIT_VERT, UNLIT_FRAG, a.ret)>>
         IN  IF ~a.ret.some
             THEN [ok |-> FALSE, eng |-> a.eng, calls |-> c,
                   ret |-> Err("add_material"),
                   setup |-> <<SetupStep("Compiler::new", TRUE)>>]
             ELSE IF ~watchOk
             THEN [ok |-> FALSE, eng |-> a.eng, calls |-> c,
                   ret |-> Err("watch"),
                   setup |-> <<SetupStep("Compiler::new", TRUE),
                               SetupStep("watch", FALSE)>>]
             ELSE [ok |-> TRUE, eng |-> a.eng, calls |-> c, ret |-> OkUnit,
                   setup |-> <<SetupStep("Compiler::new", TRUE),
                               SetupStep("watch", TRUE)>>,
                   self |-> [material |-> a.ret.val, vert |-> UNLIT_VERT,
                             frag |-> UNLIT_FRAG, prefix |-> prefix]]

\* MaterialAutoUpdate::new with every fallible step succeeding or failing:
\* the compiler (line 30), the watcher and its watch (lines 33-34), the
\* initial material (line 35). setup records the first two as they ran.
new(eng, prefix, compilerOk, watchOk, addOk) ==
    IF ~compilerOk
    THEN [ok |-> FALSE, eng |-> eng, calls |-> <<>>,
          ret |-> Err("Shaderc failed to create compiler"),
          setup |-> <<SetupStep("Compiler::new", FALSE)>>]
    ELSE IF ~watchOk
    THEN [ok |-> FALSE, eng |-> eng, calls |-> <<>>,
          ret |-> Err("watch"),
          setup |-> <<SetupStep("Compiler::new", TRUE),
                      SetupStep("watch", FALSE)>>]
    ELSE LET a == add_material(eng, UNLIT_VERT, UNLIT_FRAG, addOk)
             c == <<AddCall(UNLIT_VERT, UNLIT_FRAG, a.ret)>>
             st == <<SetupStep("Compiler::new", TRUE), SetupStep("watch", TRUE)>>
         IN  IF ~a.ret.some
             THEN [ok |-> FALSE, eng |-> a.eng, calls |-> c,
                   ret |-> Err("add_material"), setup |-> st]
             ELSE [ok |-> TRUE, eng |-> a.eng, calls |-> c, ret |-> OkUnit,
                   setup |-> st,
                   self |-> [material |-> a.ret.val, vert |-> UNLIT_VERT,
                             frag |-> UNLIT_FRAG, prefix |-> prefix]]

\* The outcome of a call: the controller fields, the engine, the value
\* returned, and what the call did to its environment: the results of its
\* file reads, its compiler invocations and its engine calls, in order.
Outcome(self, eng, ret, reads, compiles, calls) ==
    [self |-> self, eng |-> eng, ret |-> ret, reads |-> reads,
     compiles |-> compiles, calls |-> calls]

CompileCall(source, kind, out) == [source |-> source, kind |-> kind, out |-> out]

\* store_spv with the stages mixed up: a vertex binary lands in frag.
store_spv_swapped(self, kind, spv) ==
    IF kind = "Vertex" THEN [self EXCEPT !.frag = spv]
    ELSE [self EXCEPT !.vert = spv]

\* update_shader, lines 98-102: store the binary of the compiled stage.
store_spv(self, kind, spv) ==
    IF kind = "Vertex" THEN [self EXCEPT !.vert = spv]
    ELSE [self EXCEPT !.frag = spv]

\* swap_material adding the new material without removing the current one.
swap_material_no_remove(self, eng, kind, path, rd, spv, rmOk, addOk) ==
    LET s1 == store_spv(self, kind, spv.val)
        cc == <<CompileCall(rd.val, kind, spv)>>
        a  == add_material(eng, s1.vert, s1.frag, addOk)
        c2 == <<AddCall(s1.vert, s1.frag, a.ret)>>
    IN  IF ~a.ret.some
        THEN Outcome(s1, a.eng, Err("add_material"), <<rd>>, cc, c2)
        ELSE Outcome([s1 EXCEPT !.material = a.ret.val], a.eng,
                     OkSome(kind, path), <<rd>>, cc, c2)

\* swap_material creating the material from the binaries held before the
\* new one was stored.
swap_material_stale_add(self, eng, kind, path, rd, spv, rmOk, addOk) ==
    LET s1 == store_spv(self, kind, spv.val)
        e1 == remove_material(eng, s1.material, rmOk)
        c1 == <<RemoveCall(s1.material, rmOk)>>
        cc == <<CompileCall(rd.val, kind, spv)>>
    IN  IF ~rmOk
        THEN Outcome(s1, e1, Err("remove_material"), <<rd>>, cc, c1)
        ELSE LET a  == add_material(e1, self.vert, self.frag, addOk)
                 c2 == Append(c1, AddCall(self.vert, self.frag, a.ret))
             IN  IF ~a.ret.some
                 THEN Outcome(s1, a.eng, Err("add_material"), <<rd>>, cc, c2)
                 ELSE Outcome([s1 EXCEPT !.material = a.ret.val], a.eng,
                              OkSome(kind, path), <<rd>>, cc, c2)

\* swap_material reporting a failed remove_material under the context of
\* the compile step.
swap_material_compile_context(self, eng, kind, path, rd, spv, rmOk, addOk) ==
    LET s1 == store_spv(self, kind, spv.val)
        e1 == remove_material(eng, s1.material, rmOk)
        c1 == <<RemoveCall(s1.material, rmOk)>>
        cc == <<CompileCall(rd.val, kind, spv)>>
    IN  IF ~rmOk
        THEN Outcome(s1, e1, Err("Failed to compile shader"), <<rd>>, cc, c1)
        ELSE LET a  == add_material(e1, s1.vert, s1.frag, addOk)
                 c2 == Append(c1, AddCall(s1.vert, s1.frag, a.ret))
             IN  IF ~a.ret.some
                 THEN Outcome(s1, a.eng, Err("add_material"), <<rd>>, cc, c2)
                 ELSE Outcome([s1 EXCEPT !.material = a.ret.val], a.eng,
                              OkSome(kind, path), <<rd>>, cc, c2)

\* update_shader, lines 98-110: store the binary, remove the current
\* material, add the new one. rmOk and addOk are the engine's verdicts.
swap_material(self, eng, kind, path, rd, spv, rmOk, addOk) ==
    LET s1 == store_spv(self, kind, spv.val)
        e1 == remove_material(eng, s1.material, rmOk)
        c1 == <<RemoveCall(s1.material, rmOk)>>
        cc == <<CompileCall(rd.val, kind, spv)>>
    IN  IF ~rmOk
        THEN Outcome(s1, e1, Err("remove_material"), <<rd>>, cc, c1)
        ELSE LET a  == add_material(e1, s1.vert, s1.frag, addOk)
                 c2 == Append(c1, AddCall(s1.vert, s1.frag, a.ret))
             IN  IF ~a.ret.some
                 THEN Outcome(s1, a.eng, Err("add_material"), <<rd>>, cc, c2)
                 ELSE Outcome([s1 EXCEPT !.material = a.ret.val], a.eng,
                              OkSome(kind, path), <<rd>>, cc, c2)

\* compile_and_swap tearing the material down before it knows that the
\* compiler accepted the source.
compile_and_swap_eager_remove(self, eng, kind, path, rd, rmOk, addOk) ==
    IF ~rd.some
    THEN Outcome(self, eng, Err("File error loading"), <<rd>>, <<>>, <<>>)
    ELSE IF ~to_str(path).some
    THEN Outcome(self, eng, Panic, <<rd>>, <<>>, <<>>)
    ELSE LET spv == compile_into_spirv(rd.val, kind) IN
         IF ~spv.some
         THEN Outcome(self, remove_material(eng, self.material, rmOk),
                      Err("Failed to compile shader"), <<rd>>,
                      <<CompileCall(rd.val, kind, spv)>>,
                      <<RemoveCall(self.material, rmOk)>>)
         ELSE swap_material(self, eng, kind, path, rd, spv, rmOk, addOk)

\* compile_and_swap dropping the compiler's diagnostic: a rejected source
\* is treated like a filtered path.
compile_and_swap_silent_compile(self, eng, kind, path, rd, rmOk, addOk) ==
    IF ~rd.some
    THEN Outcome(self, eng, Err("File error loading"), <<rd>>, <<>>, <<>>)
    ELSE IF ~to_str(path).some
    THEN Outcome(self, eng, Panic, <<rd>>, <<>>, <<>>)
    ELSE LET spv == compile_into_spirv(rd.val, kind) IN
         IF ~spv.some
         THEN Outcome(self, eng, OkNone, <<rd>>,
                      <<CompileCall(rd.val, kind, spv)>>, <<>>)
         ELSE swap_material(self, eng, kind, path, rd, spv, rmOk, addOk)

\* compile_and_swap swallowing a file error instead of returning it.
compile_and_swap_silent_read(self, eng, kind, path, rd, rmOk, addOk) ==
    IF ~rd.some
    THEN Outcome(self, eng, OkNone, <<rd>>, <<>>, <<>>)
    ELSE IF ~to_str(path).some
    THEN Outcome(self, eng, Panic, <<rd>>, <<>>, <<>>)
    ELSE LET spv == compile_into_spirv(rd.val, kind) IN
         IF ~spv.some
         THEN Outcome(self, eng, Err("Failed to compile shader"), <<rd>>,
                      <<CompileCall(rd.val, kind, spv)>>, <<>>)
         ELSE swap_material(self, eng, kind, path, rd, spv, rmOk, addOk)

\* update_shader, lines 89-96: read the file (rd is what read_to_string
\* finds), compile it, then swap. path.to_str().unwrap() panics on a path
\* that is not UTF-8, after the read and before the compiler is called.
compile_and_swap(self, eng, kind, path, rd, rmOk, addOk) ==
    IF ~rd.some
    THEN Outcome(self, eng, Err("File error loading"), <<rd>>, <<>>, <<>>)
    ELSE IF ~to_str(path).some
    THEN Outcome(self, eng, Panic, <<rd>>, <<>>, <<>>)
    ELSE LET spv == compile_into_spirv(rd.val, kind) IN
         IF ~spv.some
         THEN Outcome(self, eng, Err("Failed to compile shader"), <<rd>>,
                      <<CompileCall(rd.val, kind, spv)>>, <<>>)
         ELSE swap_material(self, eng, kind, path, rd, spv, rmOk, addOk)

\* MaterialAutoUpdate::update_shader: the prefix filter, the extension
\* filter, then lines 89-110.
update_shader(self, eng, path, rd, rmOk, addOk) ==
    IF ~has_prefix(self.prefix, path)
    THEN Outcome(self, eng, OkNone, <<>>, <<>>, <<>>)
    ELSE IF ~shader_kind(path).some
    THEN Outcome(self, eng, OkNone, <<>>, <<>>, <<>>)
    ELSE compile_and_swap(self, eng, shader_kind(path).val, path, rd, rmOk, addOk)

\* update_event acting on every kind of event that carries a path.
update_event_any_kind(self, eng, recv, rd, rmOk, addOk) ==
    IF recv.some
    THEN update_shader(self, eng, recv.val.path, rd, rmOk, addOk)
    ELSE Outcome(self, eng, OkNone, <<>>, <<>>, <<>>)

\* update_event acting on Write events only.
update_event_write_only(self, eng, recv, rd, rmOk, addOk) ==
    IF recv.some /\ recv.val.kind = "Write"
    THEN update_shader(self, eng, recv.val.path, rd, rmOk, addOk)
    ELSE Outcome(self, eng, OkNone, <<>>, <<>>, <<>>)

\* The body of MaterialAutoUpdate::update once try_recv has answered:
\* recv is None (channel empty) or Some(event).
update_event(self, eng, recv, rd, rmOk, addOk) ==
    IF recv.some /\ recv.val.kind \in {"Create", "Write"}
    THEN update_shader(self, eng, recv.val.path, rd, rmOk, addOk)
    ELSE Outcome(self, eng, OkNone, <<>>, <<>>, <<>>)

\* try_recv handing over the first event without taking it out.
try_recv_peek(q) ==
    IF q = <<>> THEN [recv |-> None, rest |-> q]
    ELSE [recv |-> Some(Head(q)), rest |-> q]

\* try_recv emptying the channel and handing over its first event, as a
\* drain loop around try_recv would.
try_recv_drain(q) ==
    IF q = <<>> THEN [recv |-> None, rest |-> q]
    ELSE [recv |-> Some(Head(q)), rest |-> <<>>]

\* Receiver::try_recv on the channel contents.
try_recv(q) ==
    IF q = <<>> THEN [recv |-> None, rest |-> q]
    ELSE [recv |-> Some(Head(q)), rest |-> Tail(q)]

\* send putting the event in front of the waiting ones.
send_front(q, e) == <<e>> \o q

\* Sender::send on the channel contents.
send(q, e) == Append(q, e)

\* ------------------------------------------------------------ state
\* self: the MaterialAutoUpdate fields material, vert, frag, prefix
\* queue: the events in the channel file_watch_tx -> file_watch_rx
\* engine: the Engine the caller passes to new() and update()
\* alive: FALSE once a call has panicked
\* last: the most recent call: name, drained event, Outcome parts
\* sent: number of events sent into the channel so far
\* taken: number of events try_recv has taken out of the channel
\* watched: the paths in the directory given to new()
VARIABLES self, queue, engine, alive, last, sent, taken, watched

vars == <<self, queue, engine, alive, last, sent, taken, watched>>

material == self.material

Last(op, recv, o) ==
    [op |-> op, recv |-> recv, ret |-> o.ret, reads |-> o.reads,
     compiles |-> o.compiles, calls |-> o.calls]

Init ==
    \E prefix \in Prefixes, dir \in Dirs :
        LET r == new(EmptyEngine, prefix, TRUE, TRUE, TRUE) IN
        /\ self = r.self
        /\ engine = r.eng
        /\ queue = <<>>
        /\ alive = TRUE
        /\ last = [op |-> "new", recv |-> None, ret |-> OkUnit, reads |-> <<>>,
                   compiles |-> <<>>, calls |-> r.calls]
        /\ sent = 0
        /\ taken = 0
        /\ watched = dir

\* The notify watcher thread sends a debounced event into the channel.
WatcherSend(k, p) ==
    /\ sent < MaxEvents
    /\ queue' = send(queue, Event(k, p, sent + 1))
    /\ sent' = sent + 1
    /\ UNCHANGED <<self, engine, alive, last, taken, watched>>

\* MaterialAutoUpdate::manual_update(path)
manual_update(p) ==
    /\ alive
    /\ sent < MaxEvents
    /\ queue' = send(queue, Event("Write", p, sent + 1))
    /\ sent' = sent + 1
    /\ last' = [op |-> "manual_update", recv |-> None, ret |-> OkUnit,
                reads |-> <<>>, compiles |-> <<>>, calls |-> <<>>]
    /\ UNCHANGED <<self, engine, alive, taken, watched>>

\* The environment answers only what the call asks: an answer that outcome
\* o never consulted is held at a fixed value.
Consulted(o, rd, rmOk, addOk) ==
    /\ o.reads = <<>> => rd = None
    /\ Len(o.calls) < 1 => rmOk
    /\ Len(o.calls) < 2 => addOk

\* MaterialAutoUpdate::update(engine)
update(rd, rmOk, addOk) ==
    /\ alive
    /\ \E r \in {try_recv(queue)} :
       \E o \in {update_event(self, engine, r.recv, rd, rmOk, addOk)} :
           /\ Consulted(o, rd, rmOk, addOk)
           /\ queue' = r.rest
           /\ taken' = IF r.recv.some THEN taken + 1 ELSE taken
           /\ self' = o.self
           /\ engine' = o.eng
           /\ alive' = (o.ret # Panic)
           /\ last' = Last("update", r.recv, o)
    /\ UNCHANGED <<sent, watched>>

Next ==
    \/ \E k \in Kinds, p \in watched : WatcherSend(k, p)
    \/ \E p \in watched : manual_update(p)
    \/ \E rd \in ReadResults, rmOk \in BOOLEAN, addOk \in BOOLEAN :
          update(rd, rmOk, addOk)

Spec == Init /\ [][Next]_vars

\* The state new() leaves behind whatever becomes of its fallible steps.
\* When it returns Err there is no controller: nothing is watched, no call
\* on it is possible.
InitNew ==
    \E prefix \in Prefixes, dir \in Dirs,
       compilerOk \in BOOLEAN, watchOk \in BOOLEAN, addOk \in BOOLEAN :
        LET r == new(EmptyEngine, prefix, compilerOk, watchOk, addOk) IN
        /\ self = IF r.ok THEN r.self ELSE None
        /\ engine = r.eng
        /\ queue = <<>>
        /\ alive = r.ok
        /\ last = [op |-> "new", recv |-> None, ret |-> r.ret, reads |-> <<>>,
                   compiles |-> <<>>, calls |-> r.calls, setup |-> r.setup]
        /\ sent = 0
        /\ taken = 0
        /\ watched = IF r.ok THEN dir ELSE {}

SpecNew == InitNew /\ [][Next]_vars

\* The application calls update() once per frame for as long as it runs.
Frame == \E rd \in ReadResults, rmOk \in BOOLEAN, addOk \in BOOLEAN :
             update(rd, rmOk, addOk)

\* The directory of the runs checked for progress: a shader and a file
\* whose name is not UTF-8.
LiveDirs == {{P_mavert, P_badvert}}

InitLive == Init /\ watched \in LiveDirs

SpecLive == InitLive /\ [][Next]_vars /\ WF_vars(Frame)

TypeOK ==
    /\ alive \in BOOLEAN
    /\ Len(queue) <= MaxEvents
    /\ self.material \in 1..(MaxEvents + 1)
    /\ watched \in Dirs

\* ------------------------------------------------------------ vocabulary
\* A step of update(): no event is sent and the call on record is update.
IsUpdate == sent' = sent /\ last'.op = "update"

\* The paths whose stem is readable text starting with pre.
StemStartsWithSet ==
    [pre \in {x.val : x \in Prefixes \ {None}} |->
        {p \in Paths : /\ file_stem(p).some
                       /\ to_str(file_stem(p).val).some
                       /\ starts_with(to_str(file_stem(p).val).val, pre)}]
StemStartsWith(p, pre) == p \in StemStartsWithSet[pre]

\* p passes the prefix stage under the configured prefix.
PassesPrefix(prefix, p) == ~prefix.some \/ StemStartsWith(p, prefix.val)

\* The stage the extension of p names, "none" when it names none.
StageTable ==
    [p \in Paths |->
        IF extension(p) = Some(VERT) THEN "Vertex"
        ELSE IF extension(p) = Some(FRAG) THEN "Fragment"
        ELSE "none"]
StageOf(p) == StageTable[p]

\* The call on record l drained a Create or Write event that passes both
\* filters of a controller configured with prefix.
DrainedShaderEvent(l, prefix) ==
    /\ l.op = "update"
    /\ l.recv.some
    /\ l.recv.val.kind \in {"Create", "Write"}
    /\ PassesPrefix(prefix, l.recv.val.path)
    /\ StageOf(l.recv.val.path) # "none"

ReadFailed(l) == l.reads = <<None>>
CompileFailed(l) == Len(l.compiles) = 1 /\ ~l.compiles[1].out.some
CallFailed(c) ==
    IF c.op = "remove_material" THEN ~c.ok ELSE ~c.ret.some
TeardownFailed(l) ==
    \E i \in DOMAIN l.calls : l.calls[i].op = "remove_material" /\ CallFailed(l.calls[i])
CreationFailed(l) ==
    \E i \in DOMAIN l.calls : l.calls[i].op = "add_material" /\ CallFailed(l.calls[i])
StageFailed(l) ==
    ReadFailed(l) \/ CompileFailed(l) \/ TeardownFailed(l) \/ CreationFailed(l)

\* ------------------------------------------------------------ C1
\* C1: an update that drains a Create/Write event passing both filters and
\* whose file read or compilation fails leaves material, vert and frag as
\* they were and makes no remove_material/add_material call.
C1_FailedCompileKeepsMaterial ==
    [][(IsUpdate /\ DrainedShaderEvent(last', self.prefix)
          /\ (ReadFailed(last') \/ CompileFailed(last')))
       => (self' = self /\ engine' = engine /\ last'.calls = <<>>)]_vars

\* A fragment shader fails to compile after a vertex shader was swapped in.
C1_Witness ==
    /\ DrainedShaderEvent(last, self.prefix)
    /\ StageOf(last.recv.val.path) = "Fragment"
    /\ CompileFailed(last)
    /\ self.vert # UNLIT_VERT
    /\ self.material # 1

\* ------------------------------------------------------------ C2
\* C2 (as claimed): every failure of file read, compile, teardown or
\* creation comes back from update as Ok(Some(message)), never as Err.
C2_FailureIsOkSome ==
    (last.op = "update" /\ StageFailed(last))
    => (last.ret.tag = "Ok" /\ last.ret.msg.some)

\* C2 (amended): every failure of file read, compile, teardown or creation
\* comes back from update as the value Err(details), never as Ok(None) or
\* Ok(Some(message)).
C2_FailureIsErr ==
    (last.op = "update" /\ StageFailed(last)) => last.ret.tag = "Err"

\* An update whose add_material failed returned that error.
C2_Witness ==
    /\ last.op = "update"
    /\ CreationFailed(last)
    /\ last.ret = Err("add_material")

\* ------------------------------------------------------------ C3
\* C3: between calls, (vert, frag) is exactly the pair of binaries the
\* stored material was created from.
C3_BinariesBackMaterial ==
    engine.backing[self.material] = <<self.vert, self.frag>>

\* ------------------------------------------------------------ C4
\* C4: when a drained Create/Write event passes the filters, its source
\* compiles and no engine call fails, update stores the compiler's output
\* in the stage the extension names and nowhere else, removes the previous
\* material, adds a material made of both stored binaries, and stores the
\* id the engine returned, which differs from the previous one.
C4_SuccessfulSwap ==
    [][(IsUpdate /\ DrainedShaderEvent(last', self.prefix)
          /\ Len(last'.compiles) = 1 /\ last'.compiles[1].out.some
          /\ ~TeardownFailed(last') /\ ~CreationFailed(last'))
       => LET k == StageOf(last'.recv.val.path)
              c == last'.compiles[1]
          IN  /\ c.kind = k
              /\ last'.reads = <<Some(c.source)>>
              /\ k = "Vertex" => (self'.vert = c.out.val /\ self'.frag = self.frag)
              /\ k = "Fragment" => (self'.frag = c.out.val /\ self'.vert = self.vert)
              /\ last'.calls = <<RemoveCall(self.material, TRUE),
                                 AddCall(self'.vert, self'.frag, Some(self'.material))>>
              /\ self'.material # self.material
              /\ self'.material \in engine'.registered
              /\ self.material \notin engine'.registered
              /\ engine'.backing[self'.material] = <<self'.vert, self'.frag>>
              /\ last'.ret = OkSome(k, last'.recv.val.path)]_vars

\* A vertex shader was swapped in while frag holds an earlier fragment
\* shader.
C4_Witness ==
    /\ DrainedShaderEvent(last, self.prefix)
    /\ StageOf(last.recv.val.path) = "Vertex"
    /\ last.ret.tag = "Ok" /\ last.ret.msg.some
    /\ self.vert = <<"Vertex", "A">>
    /\ self.frag = <<"Fragment", "S0">>
    /\ self.material = 3

\* ------------------------------------------------------------ C5
\* C5: one update takes at most one event out of the channel and reads and
\* compiles at most once; on a non-empty channel it leaves exactly the
\* events behind the first one, on an empty channel it returns Ok(None).
\* Hence N queued events need N updates and the next one returns Ok(None).
C5_OneEventPerUpdate ==
    [][IsUpdate
       => /\ Len(last'.reads) <= 1
          /\ Len(last'.compiles) <= 1
          /\ queue # <<>> => (queue' = Tail(queue) /\ taken' = taken + 1)
          /\ queue = <<>> => (queue' = <<>> /\ taken' = taken
                                /\ last'.ret = OkNone)]_vars

\* Three shader events were queued; one update has compiled one of them and
\* two are still waiting.
C5_Witness ==
    /\ sent = 3 /\ taken = 1 /\ Len(queue) = 2
    /\ DrainedShaderEvent(last, self.prefix)
    /\ Len(last.compiles) = 1
    /\ \A i \in 1..2 : /\ queue[i].kind \in {"Create", "Write"}
                       /\ PassesPrefix(self.prefix, queue[i].path)
                       /\ StageOf(queue[i].path) # "none"

\* ------------------------------------------------------------ C6
\* C6: the channel is first-in first-out: the events waiting are exactly
\* the sent and not yet taken ones, in sending order, none merged or
\* dropped, and the k-th event an update takes is the k-th event sent.
C6_Fifo ==
    /\ sent = taken + Len(queue)
    /\ \A i \in 1..Len(queue) : queue[i].seq = taken + i
    /\ (last.op = "update" /\ last.recv.some) => last.recv.val.seq = taken

\* The same event was sent twice and interleaved with another send; the
\* first copy has been processed and the second is still waiting.
C6_Witness ==
    /\ last.op = "update" /\ last.recv.some
    /\ last.ret.tag = "Ok" /\ last.ret.msg.some
    /\ Len(queue) = 2
    /\ queue[1].path = last.recv.val.path
    /\ queue[1].kind = last.recv.val.kind
    /\ queue[2].path # queue[1].path

\* ------------------------------------------------------------ C7
\* C7: manual_update(path) only appends one Write event for path to the
\* channel (no read, no compile, no engine call, controller unchanged), and
\* on an empty channel the update that follows has, for every answer of
\* the environment, the outcome of an update that follows the watcher's
\* Write event, and of one that follows its Create event, for that path.
C7_TriggerLikeWatcher ==
    [][\A p \in watched :
         manual_update(p)
         => /\ queue' = Append(queue, Event("Write", p, sent + 1))
            /\ self' = self /\ engine' = engine
            /\ last'.reads = <<>> /\ last'.compiles = <<>> /\ last'.calls = <<>>
            /\ queue = <<>> =>
                 \A k \in {"Create", "Write"}, rd \in ReadResults,
                    rmOk \in BOOLEAN, addOk \in BOOLEAN :
                     update_event(self', engine', try_recv(queue').recv,
                                  rd, rmOk, addOk)
                     = update_event(self, engine,
                                    try_recv(send(queue, Event(k, p, sent + 1))).recv,
                                    rd, rmOk, addOk)]_vars

\* manual_update has just queued a shader path on an empty channel, after
\* an earlier reload changed the controller.
C7_Witness ==
    /\ last.op = "manual_update"
    /\ Len(queue) = 1
    /\ PassesPrefix(self.prefix, queue[1].path)
    /\ StageOf(queue[1].path) # "none"
    /\ self.material # 1

\* ------------------------------------------------------------ C8
\* C8: an update that drains a Create/Write event whose path has no
\* extension, or one other than vert and frag, returns Ok(None), changes
\* nothing, and neither reads, compiles nor calls the engine.
C8_UnknownExtensionIgnored ==
    [][(IsUpdate /\ last'.recv.some
          /\ last'.recv.val.kind \in {"Create", "Write"}
          /\ StageOf(last'.recv.val.path) = "none")
       => (/\ last'.ret = OkNone
           /\ self' = self /\ engine' = engine
           /\ last'.reads = <<>> /\ last'.compiles = <<>>
           /\ last'.calls = <<>>)]_vars

\* An event for a path with an extension that names no stage, passing the
\* prefix filter, was drained.
C8_Witness ==
    /\ last.op = "update" /\ last.recv.some
    /\ last.recv.val.kind \in {"Create", "Write"}
    /\ extension(last.recv.val.path).some
    /\ StageOf(last.recv.val.path) = "none"
    /\ PassesPrefix(self.prefix, last.recv.val.path)

\* ------------------------------------------------------------ C9
\* C9: with a prefix configured, an update that drains a Create/Write event
\* whose file stem does not start with the prefix (or has no readable stem)
\* returns Ok(None) and neither reads nor compiles, whatever the extension;
\* with no prefix configured every path with a vert or frag extension goes
\* on to the file read.
C9_PrefixFilter ==
    [][(IsUpdate /\ last'.recv.some
          /\ last'.recv.val.kind \in {"Create", "Write"})
       => LET p == last'.recv.val.path IN
          /\ (self.prefix.some /\ ~StemStartsWith(p, self.prefix.val))
             => (/\ last'.ret = OkNone
                 /\ self' = self /\ engine' = engine
                 /\ last'.reads = <<>> /\ last'.compiles = <<>>
                 /\ last'.calls = <<>>)
          /\ (~self.prefix.some /\ StageOf(p) # "none")
             => Len(last'.reads) = 1]_vars

\* With a prefix configured, an event for a vert file whose stem lacks the
\* prefix was drained.
C9_Witness ==
    /\ last.op = "update" /\ last.recv.some
    /\ last.recv.val.kind \in {"Create", "Write"}
    /\ self.prefix.some
    /\ StageOf(last.recv.val.path) = "Vertex"
    /\ ~StemStartsWith(last.recv.val.path, self.prefix.val)

\* ------------------------------------------------------------ C10
\* C10: after an update whose remove_material failed, the controller no
\* longer holds the id whose removal failed.
C10_FailedTeardownDropsMaterial ==
    (last.op = "update" /\ TeardownFailed(last))
    => self.material # last.calls[1].id

\* ------------------------------------------------------------ C11
\* C11: after an update whose remove_material succeeded and whose
\* add_material failed, the controller does not hold the id that was just
\* removed.
C11_FailedCreationDropsMaterial ==
    (last.op = "update" /\ CreationFailed(last) /\ ~TeardownFailed(last))
    => self.material # last.calls[1].id

\* ------------------------------------------------------------ C12
\* The contexts update_shader attaches to the errors of its own steps
\* (read, compile); the engine's errors are passed on as they come.
ControllerContexts == {"File error loading", "Failed to compile shader"}

\* The outcomes update_shader can have in the current state when the read
\* or the compilation of a path of the watched directory fails.
RecoverableOutcomes ==
    {o \in {update_shader(self, engine, p, rd, TRUE, TRUE) :
              p \in watched, rd \in ReadResults} :
        ReadFailed(o) \/ CompileFailed(o)}

\* C12 (as claimed): a teardown or creation failure comes back from update
\* as another kind of result than a read or compile failure does.
C12_SevereIsOtherKind ==
    (last.op = "update" /\ (TeardownFailed(last) \/ CreationFailed(last)))
    => \A o \in RecoverableOutcomes : last.ret.tag # o.ret.tag

\* C12 (amended): teardown, creation, read and compile failures all come
\* back as the same kind of result, Err; a read or compile failure carries
\* the context update_shader attaches to it, a teardown or creation failure
\* carries none, and only by that do the returned values differ.
C12_SevereDiffersByContext ==
    last.op = "update"
    => /\ (TeardownFailed(last) \/ CreationFailed(last))
          => (last.ret.tag = "Err" /\ last.ret.err \notin ControllerContexts)
       /\ (ReadFailed(last) \/ CompileFailed(last))
          => (last.ret.tag = "Err" /\ last.ret.err \in ControllerContexts)

\* An update has failed in remove_material in a state where a read or a
\* compile failure was possible as well.
C12_Witness ==
    /\ last.op = "update"
    /\ TeardownFailed(last)
    /\ RecoverableOutcomes # {}

\* ------------------------------------------------------------ C13
\* The call on record l is an update that swapped a shader in.
Swapped(l) == l.op = "update" /\ l.ret.tag = "Ok" /\ l.ret.msg.some

\* C13: right after a stage was compiled from source S0 and swapped in, a
\* successful swap of the same file to any source A followed by a
\* successful swap back to S0 ends with the stored binaries, and the
\* binaries the live material was created from, equal to the present ones.
C13_RoundTrip ==
    Swapped(last)
    => LET p  == last.recv.val.path
           s0 == last.compiles[1].source
       IN  \A a \in Sources :
             LET o1 == update_shader(self, engine, p, Some(a), TRUE, TRUE)
                 o2 == update_shader(o1.self, o1.eng, p, Some(s0), TRUE, TRUE)
             IN  (o1.ret.tag = "Ok" /\ o2.ret.tag = "Ok")
                 => /\ o2.self.vert = self.vert
                    /\ o2.self.frag = self.frag
                    /\ o2.eng.backing[o2.self.material]
                         = engine.backing[self.material]
                    /\ o2.eng.backing[o2.self.material]
                         = <<o2.self.vert, o2.self.frag>>

\* One file was swapped to S0, then to A, then back to S0: the third
\* material has other binaries than the second, the fourth has the
\* binaries of the second.
C13_Witness ==
    /\ Swapped(last)
    /\ last.compiles[1].source = "S0"
    /\ self.material = 4
    /\ engine.backing[3] # engine.backing[2]
    /\ engine.backing[4] = engine.backing[2]

\* ------------------------------------------------------------ C14
\* C14: new() either returns a controller whose vert and frag are the
\* built-in binaries and whose material was created from exactly those, or
\* returns none at all; when the compiler or the watch setup fails, no
\* add_material call has been made and the engine is untouched.
C14_NewAllOrNothing ==
    last.op = "new"
    => /\ (\A i \in DOMAIN last.setup : last.setup[i].ok)
          /\ (\A i \in DOMAIN last.calls : ~CallFailed(last.calls[i]))
          => /\ last.ret = OkUnit
             /\ alive
             /\ self.vert = UNLIT_VERT /\ self.frag = UNLIT_FRAG
             /\ last.calls = <<AddCall(UNLIT_VERT, UNLIT_FRAG, Some(self.material))>>
             /\ engine.registered = {self.material}
             /\ engine.backing[self.material] = <<UNLIT_VERT, UNLIT_FRAG>>
       /\ (\E i \in DOMAIN last.setup : ~last.setup[i].ok)
          => /\ last.ret.tag = "Err"
             /\ self = None /\ ~alive
             /\ last.calls = <<>>
             /\ engine = EmptyEngine
       /\ (\E i \in DOMAIN last.calls : CallFailed(last.calls[i]))
          => /\ last.ret.tag = "Err"
             /\ self = None /\ ~alive
             /\ engine.registered = {}

\* new() has failed in the watch setup.
C14_Witness ==
    /\ last.op = "new"
    /\ last.setup = <<SetupStep("Compiler::new", TRUE), SetupStep("watch", FALSE)>>
    /\ self = None

C16_NothingToDo ==
    [][(IsUpdate /\ (queue = <<>> \/ Head(queue).kind \notin {"Create", "Write"}))
       => /\ last'.ret = OkNone
          /\ self' = self /\ engine' = engine
          /\ last'.reads = <<>> /\ last'.compiles = <<>> /\ last'.calls = <<>>
          /\ queue = <<>> => (queue' = <<>> /\ last'.recv = None)
          /\ queue # <<>> => (queue' = Tail(queue)
                                /\ last'.recv = Some(Head(queue)))]_vars

\* A Remove event was drained while a shader event that passes both
\* filters waits behind it.
C16_Witness ==
    /\ last.op = "update" /\ last.recv.some
    /\ last.recv.val.kind = "Remove"
    /\ StageOf(last.recv.val.path) # "none"
    /\ PassesPrefix(self.prefix, last.recv.val.path)
    /\ Len(queue) >= 1
    /\ queue[1].kind \in {"Create", "Write"}
    /\ StageOf(queue[1].path) # "none"
    /\ PassesPrefix(self.prefix, queue[1].path)

\* ------------------------------------------------------------ C17
\* C17: every event in the channel is taken out by exactly one update, the
\* one that finds it first in line, whether its reload succeeds or fails;
\* no event that was taken is in the channel again; and as long as update
\* keeps being called (no call has panicked) a non-empty channel becomes
\* empty.
C17_ConsumedOnce ==
    /\ [][(IsUpdate /\ queue # <<>>)
          => /\ last'.recv = Some(Head(queue))
             /\ queue' = Tail(queue)
             /\ taken' = taken + 1]_vars
    /\ [](\A i \in DOMAIN queue :
            /\ queue[i].seq > taken
            /\ \A j \in DOMAIN queue : i # j => queue[i].seq # queue[j].seq)
    /\ (queue # <<>>) ~> (queue = <<>> \/ ~alive)

\* An event whose reload failed has been taken out and the channel is
\* empty.
C17_Witness ==
    /\ last.op = "update" /\ last.recv.some
    /\ last.ret.tag = "Err"
    /\ queue = <<>>
    /\ taken = sent /\ sent >= 2

\* ------------------------------------------------------------ C18
\* C18: after an update whose swap failed in remove_material or in
\* add_material, a manual_update for a valid shader followed by one update,
\* with an engine whose add_material succeeds and whose remove_material
\* succeeds exactly on registered ids, swaps successfully and leaves a
\* registered material built from the stored binaries.
C18_FailedStateRecovers ==
    (last.op = "update" /\ queue = <<>>
       /\ (TeardownFailed(last) \/ CreationFailed(last)))
    => \A p \in watched, src \in Sources :
         (/\ PassesPrefix(self.prefix, p)
          /\ StageOf(p) # "none"
          /\ to_str(p).some
          /\ compile_into_spirv(src, StageOf(p)).some)
         => LET r == try_recv(send(queue, Event("Write", p, sent + 1)))
                o == update_event(self, engine, r.recv, Some(src),
                                  self.material \in engine.registered, TRUE)
            IN  /\ o.ret = OkSome(StageOf(p), p)
                /\ o.self.material \in o.eng.registered
                /\ o.eng.backing[o.self.material] = <<o.self.vert, o.self.frag>>

\* ------------------------------------------------------------ C19
\* The ids the engine has created and successfully removed.
Destroyed == DOMAIN engine.backing \ engine.registered

\* C19: update never calls remove_material on an id that has already been
\* removed successfully.
C19_NoDoubleDestroy ==
    [][IsUpdate
       => \A i \in DOMAIN last'.calls :
             last'.calls[i].op = "remove_material"
             => last'.calls[i].id \notin Destroyed]_vars

====
